---- MODULE Spec2Model ----
(***************************************************************************)
(* A model of util/classes.py (class Device) and of                        *)
(* scripts/kernal_panic_pre.py.                                            *)
(*                                                                         *)
(* Python strings are sequences of one-character strings, so that          *)
(* str.replace, str.split, the `in` test and json.loads act on the         *)
(* characters as the interpreter does.  A Python value that may be None    *)
(* is a record with a `kind` field.                                        *)
(***************************************************************************)
EXTENDS Integers, Sequences, FiniteSets, TLC

VARIABLES
    pc,            \* position of the running method
    device_type,   \* Device.__device_type
    result,        \* the value the method returned
    raised,        \* the exception that left the method, "none" if none
    candidates,    \* lines of the local MAC file (find_online_device)
    online,        \* the MACs web_pa.router_is_online answers True for
    macs,          \* find_online_device: the local list `macs`
    found_one,     \* find_online_device: the local `found_one`
    queried,       \* the MACs handed to web_pa.router_is_online, in order
    resolved,      \* the MACs handed to web_pa.ip_from_mac, in order
    content,       \* parse_configs: fin.readlines()
    i,             \* parse_configs: the loop index
    examined,      \* the indices of the lines parse_configs has split
    logged,        \* the indices whose json.loads failure was logged
    data,          \* get_configs_difference: what parse_configs returned
    reference,     \* get_configs_difference: errors_conf
    data_in,       \* __remove_double_quotes: the argument
    normalized,    \* __remove_double_quotes: the value returned
    splunk_events, \* the records the log search returned
    unconvertible, \* the MACs web_pa.ecm_to_estb answers False for
    method,        \* which consumer of the log search runs
    file_out       \* what was written to the output file

findVars == <<candidates, online, macs, found_one, queried, resolved>>

diffVars == <<content, i, examined, logged, data, reference>>

normVars == <<data_in, normalized>>

queryVars == <<splunk_events, unconvertible, method, file_out>>

vars == <<pc, device_type, result, raised, findVars, diffVars, normVars,
          queryVars>>

-----------------------------------------------------------------------------
(* Values *)

None == [kind |-> "None"]

\* The variables of the methods a specification does not run.
IdleFind ==
    /\ candidates = <<>>
    /\ online = {}
    /\ macs = <<>>
    /\ found_one = FALSE
    /\ queried = <<>>
    /\ resolved = <<>>

IdleDiff ==
    /\ content = <<>>
    /\ i = 0
    /\ examined = {}
    /\ logged = <<>>
    /\ data = None
    /\ reference = <<>>

IdleNorm ==
    /\ data_in = <<>>
    /\ normalized = <<>>

IdleQuery ==
    /\ splunk_events = <<>>
    /\ unconvertible = {}
    /\ method = "none"
    /\ file_out = None

DeviceTypes == {"XB3", "XB6", "XF3", "XI5", "XG"}

MACS == {"macA", "macB", "macC"}

MaxMacs == 3

\* The sequences over S of length 0..n.
SeqUpTo(S, n) == UNION {[1..k -> S] : k \in 0..n}

\* The elements of a sequence.
Range(s) == {s[k] : k \in 1..Len(s)}

\* random.shuffle(macs): every ordering of the same list.
Shuffles(s) ==
    LET n == Len(s)
        P == {p \in [1..n -> 1..n] : \A a, b \in 1..n : a # b => p[a] # p[b]}
    IN  {[k \in 1..n |-> s[p[k]]] : p \in P}

-----------------------------------------------------------------------------
(* Python str operations on sequences of characters *)

\* s[p:p+1]: the character at p, or "" past the end.
CharAt(s, p) == IF p >= 1 /\ p <= Len(s) THEN s[p] ELSE ""

\* s.startswith(t, p-1)
MatchAt(s, p, t) ==
    /\ p + Len(t) - 1 <= Len(s)
    /\ \A k \in 1..Len(t) : s[p + k - 1] = t[k]

\* t in s
Contains(s, t) == \E p \in 1..(Len(s) + 1) : MatchAt(s, p, t)

\* s.find(t, p-1) + 1: the first place at or after p where t is, 0 if none.
FindFrom(s, p, t) ==
    LET M == {q \in p..Len(s) : MatchAt(s, q, t)}
    IN  IF M = {} THEN 0 ELSE CHOOSE q \in M : \A r \in M : q <= r

RECURSIVE ReplaceFrom(_, _, _, _)
ReplaceFrom(s, p, old, new) ==
    LET q == FindFrom(s, p, old)
    IN  IF q = 0 THEN SubSeq(s, p, Len(s))
        ELSE SubSeq(s, p, q - 1) \o new
             \o ReplaceFrom(s, q + Len(old), old, new)

\* s.replace(old, new), old not empty: leftmost matches, not overlapping.
StrReplace(s, old, new) == ReplaceFrom(s, 1, old, new)

RECURSIVE SplitFrom(_, _, _)
SplitFrom(s, p, sep) ==
    LET q == FindFrom(s, p, sep)
    IN  IF q = 0 THEN <<SubSeq(s, p, Len(s))>>
        ELSE <<SubSeq(s, p, q - 1)>> \o SplitFrom(s, q + Len(sep), sep)

\* s.split(sep), sep not empty: the list of the parts.
StrSplit(s, sep) == SplitFrom(s, 1, sep)

-----------------------------------------------------------------------------
(* json.loads, after json/decoder.py and json/scanner.py.                  *)
(* A parsed value is [t, s, kids]: t the type ("str", "num", "lit", "arr", *)
(* "obj"; "kv" for one entry of a dict), s the text of a string, number,   *)
(* literal or key, kids the elements of a list, the entries of a dict, or  *)
(* the one value of an entry.  A scan returns [ok, v, p], p the index      *)
(* after what was read.                                                    *)

JsonWs == {" ", "\t", "\n", "\r"}

Digits == {"0", "1", "2", "3", "4", "5", "6", "7", "8", "9"}

HexDigits == Digits \cup {"a", "b", "c", "d", "e", "f",
                          "A", "B", "C", "D", "E", "F"}

JStr(chars) == [t |-> "str", s |-> chars, kids |-> <<>>]
JNum(chars) == [t |-> "num", s |-> chars, kids |-> <<>>]
JLit(chars) == [t |-> "lit", s |-> chars, kids |-> <<>>]
JArr(items) == [t |-> "arr", s |-> <<>>, kids |-> items]
JObj(pairs) == [t |-> "obj", s |-> <<>>, kids |-> pairs]
JPair(key, val) == [t |-> "kv", s |-> key, kids |-> <<val>>]

JFail(p) == [ok |-> FALSE, v |-> JLit(<<>>), p |-> p]
JOk(v, p) == [ok |-> TRUE, v |-> v, p |-> p]

\* The first index at or after p whose character is not in S.
SkipChars(s, p, S) ==
    LET N == {q \in p..Len(s) : s[q] \notin S}
    IN  IF N = {} THEN (IF p > Len(s) THEN p ELSE Len(s) + 1)
        ELSE CHOOSE q \in N : \A r \in N : q <= r

SkipWs(s, p) == SkipChars(s, p, JsonWs)

SkipDigits(s, p) == SkipChars(s, p, Digits)

\* py_scanstring, strict: p is the index after the opening quote.  The text
\* up to the next quote, backslash or control character is taken whole.
RECURSIVE ScanString(_, _, _)
ScanString(s, p, acc) ==
    LET T == {q \in p..Len(s) : s[q] \in {"\"", "\\", "\n", "\t", "\r"}}
        e == IF T = {} THEN Len(s) + 1 ELSE CHOOSE q \in T : \A r \in T : q <= r
        c == CharAt(s, e)
        esc == CharAt(s, e + 1)
        chunk == acc \o SubSeq(s, p, e - 1)
    IN  IF c = "" THEN JFail(e)
        ELSE IF c = "\"" THEN JOk(JStr(chunk), e + 1)
        ELSE IF c # "\\" THEN JFail(e)
        ELSE IF esc \in {"\"", "\\", "/"}
             THEN ScanString(s, e + 2, Append(chunk, esc))
        ELSE IF esc \in {"b", "f", "n", "r", "t"}
             THEN ScanString(s, e + 2, Append(chunk,
                     CASE esc = "b" -> "<BS>" [] esc = "f" -> "\f"
                       [] esc = "n" -> "\n"   [] esc = "r" -> "\r"
                       [] esc = "t" -> "\t"))
        ELSE IF esc = "u" /\ \A k \in 2..5 : CharAt(s, e + k) \in HexDigits
             THEN ScanString(s, e + 6,
                     chunk \o <<"\\u">> \o SubSeq(s, e + 2, e + 5))
        ELSE JFail(e)

\* NUMBER_RE: (-?(?:0|[1-9][0-9]*))(\.[0-9]+)?([eE][-+]?[0-9]+)?
ScanNumber(s, p) ==
    LET i0 == IF CharAt(s, p) = "-" THEN p + 1 ELSE p
        i1 == IF CharAt(s, i0) = "0" THEN i0 + 1 ELSE SkipDigits(s, i0)
        f0 == IF CharAt(s, i1) = "." /\ CharAt(s, i1 + 1) \in Digits
              THEN SkipDigits(s, i1 + 1) ELSE i1
        e0 == IF CharAt(s, f0) \in {"e", "E"}
              THEN (IF CharAt(s, f0 + 1) \in {"-", "+"}
                    THEN f0 + 2 ELSE f0 + 1)
              ELSE f0
        e1 == IF e0 > f0 /\ CharAt(s, e0) \in Digits
              THEN SkipDigits(s, e0) ELSE f0
    IN  IF i1 = i0 THEN JFail(p) ELSE JOk(JNum(SubSeq(s, p, e1 - 1)), e1)

JsonLiterals ==
    {<<"n", "u", "l", "l">>, <<"t", "r", "u", "e">>,
     <<"f", "a", "l", "s", "e">>, <<"N", "a", "N">>,
     <<"I", "n", "f", "i", "n", "i", "t", "y">>,
     <<"-", "I", "n", "f", "i", "n", "i", "t", "y">>}

\* dict[key] = val on the list of entries: a repeated key keeps its place
\* and takes the last value.
DictSet(pairs, key, val) ==
    IF \E k \in 1..Len(pairs) : pairs[k].s = key
    THEN [k \in 1..Len(pairs) |->
             IF pairs[k].s = key THEN JPair(key, val) ELSE pairs[k]]
    ELSE Append(pairs, JPair(key, val))

RECURSIVE scan_once(_, _)
RECURSIVE ObjectPairs(_, _, _)
RECURSIVE ArrayItems(_, _, _)

\* JSONObject: p is the index after "{".
JSONObject(s, p) ==
    LET q == IF CharAt(s, p) # "\"" /\ CharAt(s, p) \in JsonWs
             THEN SkipWs(s, p) ELSE p
    IN  IF CharAt(s, q) = "}" THEN JOk(JObj(<<>>), q + 1)
        ELSE IF CharAt(s, q) # "\"" THEN JFail(q)
        ELSE ObjectPairs(s, q + 1, <<>>)

\* The loop of JSONObject: p is the index after the quote that opens a key.
ObjectPairs(s, p, pairs) ==
    LET key == ScanString(s, p, <<>>)
        c == IF CharAt(s, key.p) = ":" THEN key.p ELSE SkipWs(s, key.p)
        val == scan_once(s, SkipWs(s, c + 1))
        d == SkipWs(s, val.p)
        n == SkipWs(s, d + 1)
    IN  IF ~key.ok THEN JFail(p)
        ELSE IF CharAt(s, c) # ":" THEN JFail(c)
        ELSE IF ~val.ok THEN JFail(val.p)
        ELSE IF CharAt(s, d) = "}"
             THEN JOk(JObj(DictSet(pairs, key.v.s, val.v)), d + 1)
        ELSE IF CharAt(s, d) # "," THEN JFail(d)
        ELSE IF CharAt(s, n) # "\"" THEN JFail(n)
        ELSE ObjectPairs(s, n + 1, DictSet(pairs, key.v.s, val.v))

\* JSONArray: p is the index after "[".
JSONArray(s, p) ==
    LET q == SkipWs(s, p)
    IN  IF CharAt(s, q) = "]" THEN JOk(JArr(<<>>), q + 1)
        ELSE ArrayItems(s, q, <<>>)

\* The loop of JSONArray: p is the index of the next element.
ArrayItems(s, p, items) ==
    LET val == scan_once(s, p)
        d == SkipWs(s, val.p)
    IN  IF ~val.ok THEN JFail(val.p)
        ELSE IF CharAt(s, d) = "]" THEN JOk(JArr(Append(items, val.v)), d + 1)
        ELSE IF CharAt(s, d) # "," THEN JFail(d)
        ELSE ArrayItems(s, SkipWs(s, d + 1), Append(items, val.v))

\* py_make_scanner's _scan_once
scan_once(s, p) ==
    LET c == CharAt(s, p)
        lits == {l \in JsonLiterals : MatchAt(s, p, l)}
        num == ScanNumber(s, p)
    IN  IF c = "" THEN JFail(p)
        ELSE IF c = "\"" THEN ScanString(s, p + 1, <<>>)
        ELSE IF c = "{" THEN JSONObject(s, p + 1)
        ELSE IF c = "[" THEN JSONArray(s, p + 1)
        ELSE IF c \in {"n", "t", "f"} /\ lits # {}
             THEN LET l == CHOOSE x \in lits : TRUE
                  IN  JOk(JLit(l), p + Len(l))
        ELSE IF num.ok THEN num
        ELSE IF lits # {}
             THEN LET l == CHOOSE x \in lits : TRUE
                  IN  JOk(JLit(l), p + Len(l))
        ELSE JFail(p)

\* json.loads(s): [ok, v]; ok is FALSE where json.loads raises JSONDecodeError.
json_loads(s) ==
    LET r == scan_once(s, SkipWs(s, 1))
    IN  IF r.ok /\ SkipWs(s, r.p) = Len(s) + 1
        THEN [ok |-> TRUE, v |-> r.v]
        ELSE [ok |-> FALSE, v |-> JLit(<<>>)]

-----------------------------------------------------------------------------
(* Device.find_online_device *)

\* web_pa.router_is_online(mac)
router_is_online(m) == m \in online

\* web_pa.ip_from_mac(mac=mac, device_type=...): the directory's answer for
\* that MAC and that device type.
ip_from_mac(m, dt) == [kind |-> "ip", mac |-> m, device_type |-> dt]

\* macs.pop() takes the last element.
pop_value(ms) == ms[Len(ms)]

pop_rest(ms) == SubSeq(ms, 1, Len(ms) - 1)

\* A return that lost the XI5 branch.
find_return_ip_always(m, dt) == ip_from_mac(m, dt)

\* A return that resolves no IP.
find_return_mac_always(m, dt) == [kind |-> "mac", mac |-> m]

\* The value returned once a MAC was found online.
find_return(m, dt) ==
    IF dt = "XI5"
    THEN [kind |-> "mac", mac |-> m]
    ELSE ip_from_mac(m, dt)

\* Lines 218-221: read the file and shuffle.
find_read_and_shuffle ==
    /\ pc = "find_start"
    /\ macs' \in Shuffles(candidates)
    /\ found_one' = FALSE
    /\ pc' = "find_loop"
    /\ UNCHANGED <<device_type, result, raised, candidates, online, queried,
                   resolved, diffVars, normVars, queryVars>>

\* Lines 223-236: one iteration of `while found_one == False`.
find_iteration ==
    /\ pc = "find_loop"
    /\ found_one = FALSE
    /\ IF macs = <<>>
       THEN \* macs.pop() on an empty list
            /\ raised' = "IndexError"
            /\ pc' = "done"
            /\ UNCHANGED <<macs, found_one, queried, resolved, result>>
       ELSE LET mac == pop_value(macs)
                found == router_is_online(mac)
            IN  /\ macs' = pop_rest(macs)
                /\ found_one' = found
                /\ queried' = Append(queried, mac)
                /\ IF found
                   THEN /\ result' = find_return(mac, device_type)
                        /\ resolved' = IF device_type = "XI5"
                                       THEN resolved
                                       ELSE Append(resolved, mac)
                        /\ pc' = "done"
                   ELSE /\ UNCHANGED <<result, resolved>>
                        /\ pc' = "find_loop"
                /\ UNCHANGED raised
    /\ UNCHANGED <<device_type, candidates, online, diffVars, normVars,
                   queryVars>>

InitFind ==
    /\ pc = "find_start"
    /\ device_type \in DeviceTypes
    /\ candidates \in SeqUpTo(MACS, MaxMacs)
    /\ online \in SUBSET MACS
    /\ result = None
    /\ raised = "none"
    /\ macs = <<>>
    /\ found_one = FALSE
    /\ queried = <<>>
    /\ resolved = <<>>
    /\ IdleDiff /\ IdleNorm /\ IdleQuery

NextFind == find_read_and_shuffle \/ find_iteration

SpecFind == InitFind /\ [][NextFind]_vars

-----------------------------------------------------------------------------
(* Claims about Device.find_online_device, checked under SpecFind *)

NoCandidateOnline == Range(candidates) \cap online = {}

LastQueried == queried[Len(queried)]

\* C1: when no candidate of the list is online (the empty list included),
\* find_online_device ends without an exception, returns None, and has made
\* at most one liveness query per candidate.
C1_ExhaustedReturnsNone ==
    (pc = "done" /\ NoCandidateOnline) =>
        /\ raised = "none"
        /\ result = None
        /\ Len(queried) <= Len(candidates)

\* C3: for XI5 and a list with at least one online candidate, whatever the
\* shuffle, the returned value is a MAC of the input list that the liveness
\* check reported online.
C3_XI5ReturnsLiveCandidate ==
    (pc = "done" /\ device_type = "XI5" /\ ~NoCandidateOnline) =>
        /\ raised = "none"
        /\ result.kind = "mac"
        /\ result.mac \in Range(candidates)
        /\ result.mac \in online
        /\ result.mac = LastQueried

\* An XI5 call that met an offline candidate before it returned.
C3_Witness ==
    /\ pc = "done"
    /\ device_type = "XI5"
    /\ Len(queried) >= 2
    /\ queried[1] \notin online
    /\ result.kind = "mac"

\* C9: for XB3, XB6, XF3 and XG a call that finds an online candidate
\* returns the directory's IP for exactly that MAC and that device type; the
\* IP is resolved only for a MAC reported online, at most once per call, and
\* never for XI5.
C9_ReturnsResolvedIp ==
    /\ Len(resolved) <= 1
    /\ \A k \in 1..Len(resolved) : resolved[k] \in online
    /\ device_type = "XI5" => resolved = <<>>
    /\ (pc = "done" /\ found_one /\ device_type # "XI5") =>
          /\ result = [kind |-> "ip", mac |-> LastQueried,
                       device_type |-> device_type]
          /\ LastQueried \in online
          /\ resolved = <<LastQueried>>

\* A non-XI5 call that met an offline candidate and then resolved an IP.
C9_Witness ==
    /\ pc = "done"
    /\ device_type = "XB6"
    /\ Len(queried) >= 2
    /\ queried[1] \notin online
    /\ result.kind = "ip"
    /\ resolved # <<>>

-----------------------------------------------------------------------------
(* parse_configs.__remove_double_quotes *)

\* "
QUOTE ==
    <<"\"">>

\* {"
OPEN_QUOTE ==
    <<"{", "\"">>

\* ","
QUOTE_COMMA_QUOTE ==
    <<"\"", ",", "\"">>

\* " : "
QUOTE_SPACED_COLON_QUOTE ==
    <<"\"", " ", ":", " ", "\"">>

\* ":"
QUOTE_COLON_QUOTE ==
    <<"\"", ":", "\"">>

\* "}
QUOTE_CLOSE ==
    <<"\"", "}">>

\* vikr
VIKR ==
    <<"v", "i", "k", "r">>

\* sandep
SANDEP ==
    <<"s", "a", "n", "d", "e", "p">>

\* arun
ARUN ==
    <<"a", "r", "u", "n">>

\* bindhu
BINDHU ==
    <<"b", "i", "n", "d", "h", "u">>

\* gauth
GAUTH ==
    <<"g", "a", "u", "t", "h">>

\* "  :  "
QUOTE_WIDE_COLON_QUOTE ==
    <<"\"", " ", " ", ":", " ", " ", "\"">>

\* \
BACKSLASH ==
    <<"\\">>

\* #
HASH ==
    <<"#">>

\* A normalizer that does not put the closing sequence back (the last
\* placeholder of line 269 left in the text).
remove_double_quotes_no_gauth(d) ==
    LET s1 == StrReplace(d, OPEN_QUOTE, VIKR)
        s2 == StrReplace(s1, QUOTE_COMMA_QUOTE, SANDEP)
        s3 == StrReplace(s2, QUOTE_SPACED_COLON_QUOTE, ARUN)
        s4 == StrReplace(s3, QUOTE_COLON_QUOTE, BINDHU)
        s5 == StrReplace(s4, QUOTE_CLOSE, GAUTH)
        s6 == StrReplace(s5, QUOTE, <<>>)
        s7 == StrReplace(s6, VIKR, OPEN_QUOTE)
        s8 == StrReplace(s7, SANDEP, QUOTE_COMMA_QUOTE)
        s9 == StrReplace(s8, ARUN, QUOTE_WIDE_COLON_QUOTE)
        s10 == StrReplace(s9, BINDHU, QUOTE_COLON_QUOTE)
    IN  StrReplace(s10, BACKSLASH, HASH)

\* Lines 261-269.
remove_double_quotes(d) ==
    LET s1 == StrReplace(d, OPEN_QUOTE, VIKR)
        s2 == StrReplace(s1, QUOTE_COMMA_QUOTE, SANDEP)
        s3 == StrReplace(s2, QUOTE_SPACED_COLON_QUOTE, ARUN)
        s4 == StrReplace(s3, QUOTE_COLON_QUOTE, BINDHU)
        s5 == StrReplace(s4, QUOTE_CLOSE, GAUTH)
        s6 == StrReplace(s5, QUOTE, <<>>)
        s7 == StrReplace(s6, VIKR, OPEN_QUOTE)
        s8 == StrReplace(s7, SANDEP, QUOTE_COMMA_QUOTE)
        s9 == StrReplace(s8, ARUN, QUOTE_WIDE_COLON_QUOTE)
        s10 == StrReplace(s9, BINDHU, QUOTE_COLON_QUOTE)
        s11 == StrReplace(s10, GAUTH, QUOTE_CLOSE)
    IN  StrReplace(s11, BACKSLASH, HASH)

-----------------------------------------------------------------------------
(* Device.get_configs_difference and its parse_configs *)

\* urn:settings:TelemetryProfile
SENTINEL ==
    <<"u", "r", "n", ":", "s", "e", "t", "t", "i", "n", "g", "s", ":",
     "T", "e", "l", "e", "m", "e", "t", "r", "y", "P", "r", "o", "f",
     "i", "l", "e">>

\* telemetryProfile":
KEY_MARKER ==
    <<"t", "e", "l", "e", "m", "e", "t", "r", "y", "P", "r", "o", "f",
     "i", "l", "e", "\"", ":">>

\* ,"schedule":"
SCHEDULE_MARKER ==
    <<",", "\"", "s", "c", "h", "e", "d", "u", "l", "e", "\"", ":",
     "\"">>

\* "cid":"0"
CID_QUOTED ==
    <<"\"", "c", "i", "d", "\"", ":", "\"", "0", "\"">>

\* cid:0
CID_BARE ==
    <<"c", "i", "d", ":", "0">>

\* header
HEADER ==
    <<"h", "e", "a", "d", "e", "r">>

\* The profile payloads of the model's log lines.
\* [{"header":"a"}]
Payload_one ==
    <<"[", "{", "\"", "h", "e", "a", "d", "e", "r", "\"", ":", "\"",
     "a", "\"", "}", "]">>

\* [{"header":"a"},{"header":"b"}]
Payload_two ==
    <<"[", "{", "\"", "h", "e", "a", "d", "e", "r", "\"", ":", "\"",
     "a", "\"", "}", ",", "{", "\"", "h", "e", "a", "d", "e", "r", "\"",
     ":", "\"", "b", "\"", "}", "]">>

\* [{"header":"b","cid":"0"}]
Payload_cid ==
    <<"[", "{", "\"", "h", "e", "a", "d", "e", "r", "\"", ":", "\"",
     "b", "\"", ",", "\"", "c", "i", "d", "\"", ":", "\"", "0", "\"",
     "}", "]">>

\* [{"header":"a"b"}]
Payload_quote ==
    <<"[", "{", "\"", "h", "e", "a", "d", "e", "r", "\"", ":", "\"",
     "a", "\"", "b", "\"", "}", "]">>

\* {"header":[]}
Payload_empty ==
    <<"{", "\"", "h", "e", "a", "d", "e", "r", "\"", ":", "[", "]",
     "}">>

\* [{"header":"a"
Payload_cut ==
    <<"[", "{", "\"", "h", "e", "a", "d", "e", "r", "\"", ":", "\"",
     "a", "\"">>

\* {"urn:settings:TelemetryProfile":{"telemetryProfile":
LinePrefix ==
    <<"{", "\"", "u", "r", "n", ":", "s", "e", "t", "t", "i", "n", "g",
     "s", ":", "T", "e", "l", "e", "m", "e", "t", "r", "y", "P", "r",
     "o", "f", "i", "l", "e", "\"", ":", "{", "\"", "t", "e", "l", "e",
     "m", "e", "t", "r", "y", "P", "r", "o", "f", "i", "l", "e", "\"",
     ":">>

\* ,"schedule":"c"}}\n
LineTail ==
    <<",", "\"", "s", "c", "h", "e", "d", "u", "l", "e", "\"", ":",
     "\"", "c", "\"", "}", "}", "\n">>

\* telemetryProfile":[{"header":"c"}]\n
Line_noise ==
    <<"t", "e", "l", "e", "m", "e", "t", "r", "y", "P", "r", "o", "f",
     "i", "l", "e", "\"", ":", "[", "{", "\"", "h", "e", "a", "d", "e",
     "r", "\"", ":", "\"", "c", "\"", "}", "]", "\n">>

\* {"urn:settings:TelemetryProfile":{}}\n
Line_nokey ==
    <<"{", "\"", "u", "r", "n", ":", "s", "e", "t", "t", "i", "n", "g",
     "s", ":", "T", "e", "l", "e", "m", "e", "t", "r", "y", "P", "r",
     "o", "f", "i", "l", "e", "\"", ":", "{", "}", "}", "\n">>

\* The characters of the model in the order of their code points.
AsciiOrder ==
    <<"\t", "\n", "\r", " ", "\"", "#", ",", "-", ".", "/",
      "0", "1", "2", "3", "4", "5", "6", "7", "8", "9",
      ":", "A", "B", "C", "D", "E", "F", "G", "H", "I",
      "J", "K", "L", "M", "N", "O", "P", "Q", "R", "S",
      "T", "U", "V", "W", "X", "Y", "Z", "[", "\\", "]",
      "_", "a", "b", "c", "d", "e", "f", "g", "h", "i",
      "j", "k", "l", "m", "n", "o", "p", "q", "r", "s",
      "t", "u", "v", "w", "x", "y", "z", "{", "}">>

MaxLines == 2

MaxRef == 2

\* The lines a log file of the model is made of: a line without the
\* sentinel, a sentinel line without the key marker, and sentinel lines
\* that carry a payload, followed by the schedule field or by the line end.
LogLines ==
    {Line_noise, Line_nokey, LinePrefix \o Payload_one \o <<"\n">>}
    \cup {LinePrefix \o p \o LineTail :
            p \in {Payload_one, Payload_two, Payload_cid, Payload_quote,
                   Payload_empty, Payload_cut}}

\* The markers of the reference table.
Markers == {<<"a">>, <<"b">>, <<"a", "b">>, <<"c">>}

\* Line 274 with the test dropped: every line is taken for a sentinel line.
has_sentinel_always(line) == TRUE

\* Line 274: "urn:settings:TelemetryProfile" in content[i]
has_sentinel(line) == Contains(line, SENTINEL)

\* Line 275: content[i].split('telemetryProfile":')
split_key(line) == StrSplit(line, KEY_MARKER)

\* Lines 276-282: the text handed to json.loads, for a line with the key
\* marker.
parse_data_of(line, dt) ==
    LET data_string == StrSplit(split_key(line)[2], SCHEDULE_MARKER)
    IN  IF dt \in {"XB3", "XB6", "XF3"}
        THEN StrReplace(data_string[1], CID_QUOTED, CID_BARE)
        ELSE remove_double_quotes(data_string[1])

\* What `return jsn_data` hands back: JSON null is Python's None.
returned_json(v) ==
    IF v = JLit(<<"n", "u", "l", "l">>) THEN None
    ELSE [kind |-> "json", v |-> v]

\* An except clause that returns instead of going on with the loop.
after_failure_stop(n) == Len(content)

\* Lines 286-287: after the failure is logged the for loop goes on with
\* the next line.
after_failure(n) == n + 1

\* Lines 271-287: one iteration of `for i in range(len(content))`, or the
\* end of the loop, where parse_configs returns None.
parse_iteration ==
    /\ pc = "parse_loop"
    /\ IF i >= Len(content)
       THEN /\ data' = None
            /\ pc' = "parsed"
            /\ UNCHANGED <<i, examined, logged, raised>>
       ELSE LET line == content[i + 1]
            IN  IF ~has_sentinel(line)
                THEN /\ i' = i + 1
                     /\ UNCHANGED <<pc, data, examined, logged, raised>>
                ELSE /\ examined' = examined \cup {i}
                     /\ IF Len(split_key(line)) < 2
                        THEN \* data_string[1] outside the try
                             /\ raised' = "IndexError"
                             /\ pc' = "done"
                             /\ UNCHANGED <<i, data, logged>>
                        ELSE LET r == json_loads(parse_data_of(line,
                                                                device_type))
                             IN  IF r.ok
                                 THEN /\ data' = returned_json(r.v)
                                      /\ pc' = "parsed"
                                      /\ UNCHANGED <<i, logged, raised>>
                                 ELSE /\ logged' = Append(logged, i)
                                      /\ i' = after_failure(i)
                                      /\ UNCHANGED <<pc, data, raised>>
    /\ UNCHANGED <<device_type, result, content, reference, findVars,
                   normVars, queryVars>>

\* dict.get on the entries of a parsed dict.
HasKey(obj, key) == \E k \in 1..Len(obj.kids) : obj.kids[k].s = key

ValueOf(obj, key) ==
    LET k == CHOOSE k \in 1..Len(obj.kids) : obj.kids[k].s = key
    IN  obj.kids[k].kids[1]

AllStr(items) == \A k \in 1..Len(items) : items[k].t = "str"

ColumnOf(items) == [ok |-> TRUE, err |-> "none",
                    v |-> [k \in 1..Len(items) |-> items[k].s]]

NoColumn(err) == [ok |-> FALSE, err |-> err, v |-> <<>>]

\* Line 290: list(pd.DataFrame(data)["header"]).  None and a list without a
\* "header" key make a frame without that column (KeyError); a scalar, and a
\* dict of scalars, is refused by the constructor (ValueError).  Frames whose
\* header column would hold something else than strings are not modelled.
header_column(d) ==
    IF d.kind = "None" THEN NoColumn("KeyError")
    ELSE LET v == d.v
             rows == v.kids
             n == Len(rows)
         IN  CASE v.t = "arr" /\ \A k \in 1..n : rows[k].t = "obj" ->
                    IF \A k \in 1..n : ~HasKey(rows[k], HEADER)
                    THEN NoColumn("KeyError")
                    ELSE IF \A k \in 1..n : /\ HasKey(rows[k], HEADER)
                                            /\ ValueOf(rows[k], HEADER).t = "str"
                    THEN ColumnOf([k \in 1..n |-> ValueOf(rows[k], HEADER)])
                    ELSE NoColumn("Unmodelled")
               [] v.t = "arr" /\ \A k \in 1..n : rows[k].t # "obj" ->
                    NoColumn("KeyError")
               [] v.t = "obj" /\ \A k \in 1..n : rows[k].kids[1].t = "arr" ->
                    IF \E j, k \in 1..n : Len(rows[j].kids[1].kids)
                                            # Len(rows[k].kids[1].kids)
                    THEN NoColumn("ValueError")
                    ELSE IF ~HasKey(v, HEADER) THEN NoColumn("KeyError")
                    ELSE IF AllStr(ValueOf(v, HEADER).kids)
                    THEN ColumnOf(ValueOf(v, HEADER).kids)
                    ELSE NoColumn("Unmodelled")
               [] v.t = "obj" /\ \A k \in 1..n :
                       rows[k].kids[1].t \in {"str", "num", "lit"} ->
                    NoColumn("ValueError")
               [] v.t \in {"str", "num", "lit"} -> NoColumn("ValueError")
               [] OTHER -> NoColumn("Unmodelled")

CharCode(c) == CHOOSE k \in 1..Len(AsciiOrder) : AsciiOrder[k] = c

\* a < b on Python strings.
RECURSIVE StrLess(_, _)
StrLess(a, b) ==
    IF b = <<>> THEN FALSE
    ELSE IF a = <<>> THEN TRUE
    ELSE IF a[1] # b[1] THEN CharCode(a[1]) < CharCode(b[1])
    ELSE StrLess(Tail(a), Tail(b))

\* The elements of a set of strings in ascending order.
RECURSIVE Sorted(_)
Sorted(S) ==
    IF S = {} THEN <<>>
    ELSE LET m == CHOOSE x \in S : \A y \in S \ {x} : StrLess(x, y)
         IN  <<m>> \o Sorted(S \ {m})

\* A difference with the arguments the other way round.
setdiff1d_swapped(ar1, ar2) ==
    Sorted({x \in Range(ar2) : x \notin Range(ar1)})

\* np.setdiff1d(ar1, ar2): the sorted, unique values of ar1 not in ar2.
setdiff1d(ar1, ar2) ==
    Sorted({x \in Range(ar1) : x \notin Range(ar2)})

\* self.get_static_error_df()["Marker"]: the reference table of the device
\* type, whatever it holds.
get_static_error_df == SeqUpTo(Markers, MaxRef)

\* Lines 290-297.
diff_compute ==
    /\ pc = "parsed"
    /\ LET errors_configs == header_column(data)
       IN  IF ~errors_configs.ok
           THEN /\ raised' = errors_configs.err
                /\ UNCHANGED <<reference, result>>
           ELSE /\ reference' \in get_static_error_df
                /\ result' = [kind |-> "array",
                              v |-> setdiff1d(reference', errors_configs.v)]
                /\ UNCHANGED raised
    /\ pc' = "done"
    /\ UNCHANGED <<device_type, content, i, examined, logged, data,
                   findVars, normVars, queryVars>>

InitDiff ==
    /\ pc = "parse_loop"
    /\ device_type \in DeviceTypes
    /\ content \in SeqUpTo(LogLines, MaxLines)
    /\ i = 0
    /\ examined = {}
    /\ logged = <<>>
    /\ data = None
    /\ reference = <<>>
    /\ result = None
    /\ raised = "none"
    /\ IdleFind /\ IdleNorm /\ IdleQuery

NextDiff == parse_iteration \/ diff_compute

SpecDiff == InitDiff /\ [][NextDiff]_vars

-----------------------------------------------------------------------------
(* Claims about get_configs_difference and parse_configs, under SpecDiff *)

\* The indices (from 0, as in the code) of the lines with the sentinel.
SentinelLines == {k \in 0..(Len(content) - 1) : Contains(content[k + 1], SENTINEL)}

FirstSentinelLine == CHOOSE k \in SentinelLines : \A j \in SentinelLines : k <= j

\* The markers on the device, when the frame has a header column.
OnDevice == Range(header_column(data).v)

C4_ExtractorNeverRaises ==
    /\ raised # "IndexError"
    /\ pc = "parsed" => (data = None \/ data.kind = "json")

\* C5: when parse_configs returned None after a payload failed to parse,
\* get_configs_difference ends without an exception and without a result.
C5_ParseFailureYieldsNoResult ==
    (pc = "done" /\ examined # {} /\ Range(logged) = examined /\ data = None) =>
        /\ raised = "none"
        /\ result = None

\* C8: when no line holds the sentinel, parse_configs returns None and has
\* split, substituted and parsed nothing.
C8_NoSentinelNoResult ==
    SentinelLines = {} =>
        /\ examined = {}
        /\ logged = <<>>
        /\ data = None
        /\ raised # "IndexError"

\* A file of several lines, none with the sentinel, read to its end.
C8_Witness ==
    /\ Len(content) >= 2
    /\ SentinelLines = {}
    /\ pc = "parsed"
    /\ i = Len(content)

\* C10 as stated: only the first sentinel line is ever split or parsed, and
\* when its payload fails to parse the extractor returns None.
C10_FirstSentinelLineDecides ==
    SentinelLines # {} =>
        /\ examined \subseteq {FirstSentinelLine}
        /\ (pc = "parsed" /\ FirstSentinelLine \in Range(logged)) => data = None

\* C10 as amended: the lines are taken in order, and a sentinel line is
\* split and parsed only when the payload of every sentinel line before it
\* failed to parse and was logged; parse_configs returns the payload of the
\* first sentinel line that parses and looks at no line after it; it runs
\* to the end of the lines, and returns None, only when the payload of
\* every sentinel line failed to parse.
C10_FirstParseableSentinelLineDecides ==
    /\ \A k \in examined :
          /\ k \in SentinelLines
          /\ \A j \in SentinelLines : j < k => j \in Range(logged)
    /\ Range(logged) \subseteq examined
    /\ (pc = "parsed" /\ i < Len(content)) =>
          /\ i \in examined
          /\ \A k \in examined : k <= i
          /\ Range(logged) = examined \ {i}
          /\ data = returned_json(
                      json_loads(parse_data_of(content[i + 1],
                                               device_type)).v)
    /\ (pc = "parsed" /\ i >= Len(content)) =>
          /\ data = None
          /\ examined = SentinelLines
          /\ Range(logged) = SentinelLines

\* A first sentinel line whose payload failed, and a later one that was
\* returned.
C10_Witness ==
    /\ pc = "parsed"
    /\ logged # <<>>
    /\ logged[1] = FirstSentinelLine
    /\ i < Len(content)
    /\ i > FirstSentinelLine
    /\ data # None

-----------------------------------------------------------------------------
(* __remove_double_quotes on JSON texts, and json.loads of what it returns *)

MaxEntries == 2

\* "key" sep value
EntryText(key, sep, val) == QUOTE \o key \o QUOTE \o sep \o val

RECURSIVE JoinEntries(_)
JoinEntries(es) ==
    IF Len(es) = 1 THEN es[1]
    ELSE es[1] \o <<",">> \o JoinEntries(Tail(es))

\* { entry , entry ... }
ObjectText(es) == <<"{">> \o JoinEntries(es) \o <<"}">>

ObjectTexts(keys, seps, vals) ==
    LET entries == {EntryText(e[1], e[2], e[3]) : e \in keys \X seps \X vals}
    IN  {ObjectText(es) : es \in SeqUpTo(entries, MaxEntries) \ {<<>>}}

\* Keys, separators and values of the JSON objects handed to the
\* normalizer: "b", "", 1, {"a":"b"}, " : " and "\\" as values.
NormKeys == {<<"a">>, <<"a", "{">>}

NormSeps == {<<":">>, <<" ", ":", " ">>, <<":", " ">>}

NormValues ==
    {<<"\"", "b", "\"">>, <<"\"", "\"">>, <<"1">>,
     <<"{", "\"", "a", "\"", ":", "\"", "b", "\"", "}">>,
     <<"\"", " ", ":", " ", "\"">>, <<"\"", "\\", "\\", "\"">>}

NormInputs == ObjectTexts(NormKeys, NormSeps, NormValues)

\* Lines 261-269 applied to the payload (line 282).
norm_apply ==
    /\ pc = "norm_start"
    /\ normalized' = remove_double_quotes(data_in)
    /\ pc' = "norm_applied"
    /\ UNCHANGED <<device_type, result, raised, data_in, findVars, diffVars,
                   queryVars>>

\* Line 284: json.loads of the normalized text.
norm_loads ==
    /\ pc = "norm_applied"
    /\ LET r == json_loads(normalized)
       IN  IF r.ok
           THEN /\ result' = returned_json(r.v)
                /\ UNCHANGED raised
           ELSE /\ raised' = "JSONDecodeError"
                /\ UNCHANGED result
    /\ pc' = "done"
    /\ UNCHANGED <<device_type, data_in, normalized, findVars, diffVars,
                   queryVars>>

InitNorm ==
    /\ pc = "norm_start"
    /\ device_type = "XG"
    /\ data_in \in NormInputs
    /\ normalized = <<>>
    /\ result = None
    /\ raised = "none"
    /\ IdleFind /\ IdleDiff /\ IdleQuery

NextNorm == norm_apply \/ norm_loads

SpecNorm == InitNorm /\ [][NextNorm]_vars

-----------------------------------------------------------------------------
(* Claims about __remove_double_quotes, under SpecNorm *)

NoBackslash(s) == \A k \in 1..Len(s) : s[k] # "\\"

\* The objects {"k":"v","k" : "v",...} whose keys and values are strings
\* without quote, backslash, brace, comma, colon, space or placeholder word.
PlainInputs ==
    ObjectTexts({<<"a">>}, {<<":">>, <<" ", ":", " ">>},
                {<<"\"", "b", "\"">>, <<"\"", "\"">>})

\* C6 as stated: for every valid JSON text without a backslash the
\* normalized text parses to the content the text itself parses to.
C6_NormalizeKeepsValidJson ==
    (pc = "done" /\ json_loads(data_in).ok /\ NoBackslash(data_in)) =>
        /\ raised = "none"
        /\ result.v = json_loads(data_in).v

\* C6 as amended: for a JSON object of string keys and string values, the
\* strings free of quotes, backslashes, braces, commas, colons, spaces and
\* the placeholder words, written with the separators ":" or " : " between
\* key and value and "," between entries, the normalized text is the text
\* with each " : " widened to "  :  ", and parses to the same content.
C6_NormalizeKeepsPlainObjects ==
    (pc = "done" /\ data_in \in PlainInputs) =>
        /\ raised = "none"
        /\ result.v = json_loads(data_in).v
        /\ normalized = StrReplace(data_in, QUOTE_SPACED_COLON_QUOTE,
                                   QUOTE_WIDE_COLON_QUOTE)

\* A plain object with a spaced separator, normalized and parsed.
C6_Witness ==
    /\ pc = "done"
    /\ data_in \in PlainInputs
    /\ Contains(data_in, QUOTE_SPACED_COLON_QUOTE)
    /\ Contains(data_in, <<",">>)
    /\ normalized # data_in
    /\ result # None

-----------------------------------------------------------------------------
(* Device.get_macs, Device.get_daily_errors and write_to_file: the         *)
(* consumers of a log search                                               *)

MaxEvents == 2

\* dict(item) for the items of the ResultsReader: the fields of a record.
EventRecords == [mac : MACS, marker : {<<"a">>, <<"b">>}]

\* The instance attributes Device.__init__ and Product.__init__ set.
InstanceAttributes ==
    {"_Product__product_type", "_Product__email_sender",
     "_Product__email_subject", "_Product__recipient_list",
     "_Device__device_type", "_Device__splunk_query_macs",
     "_Device__splunk_query_daily_percents", "_Device__logpath",
     "_Device__command"}

\* Lines 180-189: get_splunk_daily_percents_query returns
\* self.__splunk_query_daily_percent.
get_splunk_daily_percents_query ==
    IF "_Device__splunk_query_daily_percent" \in InstanceAttributes
    THEN "ok" ELSE "AttributeError"

PyList(l) == [kind |-> "list", v |-> l]

\* pd.DataFrame(splunk_events)[column].to_list(): a frame made of no record
\* has no column.
frame_column(events, column) ==
    IF events = <<>> THEN NoColumn("KeyError")
    ELSE [ok |-> TRUE, err |-> "none",
          v |-> [k \in 1..Len(events) |-> events[k][column]]]

\* web_pa.ecm_to_estb(mac): the converted MAC, or False.
EstbText(m) ==
    CASE m = "macA" -> <<"e", "A">>
      [] m = "macB" -> <<"e", "B">>
      [] m = "macC" -> <<"e", "C">>

ecm_to_estb(m) ==
    IF m \in unconvertible THEN [kind |-> "False", s |-> <<>>]
    ELSE [kind |-> "str", s |-> EstbText(m)]

\* sorted(l) on a list of strings.
RECURSIVE SortedList(_)
SortedList(l) ==
    IF l = <<>> THEN <<>>
    ELSE LET rest == SortedList(Tail(l))
             lower == SelectSeq(rest, LAMBDA x : StrLess(x, Head(l)))
             upper == SelectSeq(rest, LAMBDA x : ~StrLess(x, Head(l)))
         IN  lower \o <<Head(l)>> \o upper

\* '\n'.join(l)
RECURSIVE JoinLines(_)
JoinLines(l) ==
    IF l = <<>> THEN <<>>
    ELSE IF Len(l) = 1 THEN l[1]
    ELSE l[1] \o <<"\n">> \o JoinLines(Tail(l))

\* Lines 317-331 of classes.py.
get_macs ==
    /\ pc = "start"
    /\ method = "get_macs"
    /\ LET col == frame_column(splunk_events, "mac")
       IN  IF col.ok
           THEN /\ result' = PyList(col.v)
                /\ UNCHANGED raised
           ELSE /\ raised' = col.err
                /\ UNCHANGED result
    /\ pc' = "done"
    /\ UNCHANGED <<device_type, method, splunk_events, unconvertible,
                   file_out, findVars, diffVars, normVars>>

\* Lines 340-356 of classes.py.
get_daily_errors ==
    /\ pc = "start"
    /\ method = "get_daily_errors"
    /\ IF get_splunk_daily_percents_query # "ok"
       THEN /\ raised' = get_splunk_daily_percents_query
            /\ UNCHANGED result
       ELSE /\ result' = IF Len(splunk_events) > 0
                         THEN PyList(frame_column(splunk_events, "marker").v)
                         ELSE PyList(<<>>)
            /\ UNCHANGED raised
    /\ pc' = "done"
    /\ UNCHANGED <<device_type, method, splunk_events, unconvertible,
                   file_out, findVars, diffVars, normVars>>

\* Lines 5-11 of kernal_panic_pre.py.
write_to_file ==
    /\ pc = "start"
    /\ method = "write_to_file"
    /\ LET dict_list == splunk_events
           macs_ == [k \in 1..Len(dict_list) |-> dict_list[k].mac]
           converted == [k \in 1..Len(macs_) |-> ecm_to_estb(macs_[k])]
           kept == SelectSeq(converted, LAMBDA ip : ip.kind # "False")
           estb_macs == SortedList([k \in 1..Len(kept) |-> kept[k].s])
       IN  file_out' = [kind |-> "text", v |-> JoinLines(estb_macs)]
    /\ pc' = "done"
    /\ UNCHANGED <<device_type, method, result, raised, splunk_events,
                   unconvertible, findVars, diffVars, normVars>>

InitQuery ==
    /\ pc = "start"
    /\ method \in {"get_macs", "get_daily_errors", "write_to_file"}
    /\ device_type \in DeviceTypes
    /\ splunk_events \in SeqUpTo(EventRecords, MaxEvents)
    /\ unconvertible \in SUBSET MACS
    /\ file_out = None
    /\ result = None
    /\ raised = "none"
    /\ IdleFind /\ IdleDiff /\ IdleNorm

NextQuery == get_macs \/ get_daily_errors \/ write_to_file

SpecQuery == InitQuery /\ [][NextQuery]_vars

-----------------------------------------------------------------------------
(* Claim about the consumers of a log search, under SpecQuery *)

\* C7: when the search returned no record, get_macs and get_daily_errors
\* return an empty list and write_to_file writes an empty file, none of
\* them with an exception.
C7_EmptyQueryIsEmptyCollection ==
    (pc = "done" /\ splunk_events = <<>>) =>
        /\ raised = "none"
        /\ method \in {"get_macs", "get_daily_errors"} => result = PyList(<<>>)
        /\ method = "write_to_file" => file_out = [kind |-> "text", v |-> <<>>]

====
